---- MODULE Spec2Model ----
(***************************************************************************)
(* CameraGPT: the trigger evaluator check_trigger and the monitoring loop   *)
(* main of camera_daemon.py, the frame difference calculate_diff of         *)
(* image_utils.py.                                                          *)
(*                                                                         *)
(* Text is a sequence of one-character strings.  The CJK characters of the *)
(* keyword lists are written by their pinyin: "shi" U+662F, "dui" U+5C0D,  *)
(* "you" U+6709, "fou" U+5426, "cuo" U+932F, "mei" U+6C92 (so the keyword  *)
(* U+6C92 U+6709 is <<"mei", "you">> and contains the keyword <<"you">>).  *)
(* Numbers are fixed-point: a float value v is the integer v * Scale.      *)
(***************************************************************************)
EXTENDS Integers, Sequences, FiniteSets, TLC

VARIABLES
  \* check_trigger: its arguments, its position, its result, the strategy used
  trigger, response, pc, result, strategy,
  \* calculate_diff: its arguments, its position, the binarised difference
  \* image and the percentage it returns
  frame1, frame2, dpc, thresh, percentage,
  \* main: its position, the camera handle, the configuration it reads
  \* (diff_threshold, trigger_keyword, the enabled notification channels),
  \* its locals last_frame, current_frame, diff_score, ai_answer and e, and
  \* what it did: the number of loop iterations begun, whether the last step
  \* called the AI adapter, whether check_trigger has returned True, the
  \* channels invoked so far, how the last step ended, whether its handler
  \* tried to reconnect the camera
  mpc, cap, diff_threshold, trigger_keyword, enabled,
  last_frame, current_frame, diff_score, ai_answer, error,
  iteration, ai_called, hit, notified, outcome, reconnect

tvars == <<trigger, response, pc, result, strategy>>

dvars == <<frame1, frame2, dpc, thresh, percentage>>

cfgvars == <<diff_threshold, trigger_keyword, enabled>>

mvars ==
  <<mpc, cap, cfgvars, last_frame, current_frame, diff_score, ai_answer,
    error, iteration, ai_called, hit, notified, outcome, reconnect>>

vars == <<tvars, dvars, mvars>>

\* ------------------------------------------------------------------ bounds
\* Number of fractional decimal digits the fixed-point values keep.
FracDigits == 3

\* Largest number of words in an AI answer.
MaxTokens == 2

RECURSIVE Pow10(_)
Pow10(n) == IF n = 0 THEN 1 ELSE 10 * Pow10(n - 1)

Scale == Pow10(FracDigits)

\* Largest number of iterations of the monitoring loop.
MaxIterations == 3

\* ------------------------------------------------------- Python primitives
\* The value None of Python where text is expected (a trigger_keyword missing
\* from the config).
None == <<"None">>

\* The value None of Python where a frame is expected: a row whose only
\* pixel has no channels, which no image has.
NoFrame == << <<>> >>

\* check_trigger is not running.
TriggerIdle ==
  /\ trigger = None /\ response = <<>> /\ pc = "idle"
  /\ result = FALSE /\ strategy = "none"

\* calculate_diff is not running.
DiffIdle ==
  /\ frame1 = NoFrame /\ frame2 = NoFrame /\ dpc = "idle"
  /\ thresh = <<>> /\ percentage = 0

\* main is not running.
MainIdle ==
  /\ mpc = "idle" /\ cap = "unset"
  /\ diff_threshold = 0 /\ trigger_keyword = None /\ enabled = {}
  /\ last_frame = NoFrame /\ current_frame = NoFrame /\ diff_score = 0
  /\ ai_answer = None /\ error = <<>>
  /\ iteration = 0 /\ ai_called = FALSE /\ hit = FALSE
  /\ notified = <<>> /\ outcome = "none" /\ reconnect = "no"

Digits == {"0", "1", "2", "3", "4", "5", "6", "7", "8", "9"}

IsDigit(c) == c \in Digits

DigitVal(c) ==
  CASE c = "0" -> 0 [] c = "1" -> 1 [] c = "2" -> 2 [] c = "3" -> 3
    [] c = "4" -> 4 [] c = "5" -> 5 [] c = "6" -> 6 [] c = "7" -> 7
    [] c = "8" -> 8 [] c = "9" -> 9

\* Whitespace as str.strip() and the regex class \s see it.
IsSpace(c) == c \in {" ", "\t"}

RECURSIVE lstrip(_)
lstrip(s) == IF s /= <<>> /\ IsSpace(Head(s)) THEN lstrip(Tail(s)) ELSE s

RECURSIVE rstrip(_)
rstrip(s) ==
  IF s /= <<>> /\ IsSpace(s[Len(s)]) THEN rstrip(SubSeq(s, 1, Len(s) - 1)) ELSE s

\* str.strip()
strip(s) == rstrip(lstrip(s))

\* str.lower() on one character: ASCII capitals fold, the rest is unchanged.
LowerChar(c) ==
  CASE c = "Y" -> "y" [] c = "E" -> "e" [] c = "S" -> "s"
    [] c = "N" -> "n" [] c = "O" -> "o" [] c = "C" -> "c" [] c = "H" -> "h"
    [] OTHER -> c

\* str.lower()
lower(s) == [i \in 1..Len(s) |-> LowerChar(s[i])]

\* Python's "needle in hay" on strings (the empty needle is in every string).
str_in(needle, hay) ==
  \E i \in 0..(Len(hay) - Len(needle)) : SubSeq(hay, i + 1, i + Len(needle)) = needle

\* Length of the maximal run of digits of s that starts at position i (\d*).
RECURSIVE DigitRun(_, _)
DigitRun(s, i) ==
  IF i <= Len(s) /\ IsDigit(s[i]) THEN 1 + DigitRun(s, i + 1) ELSE 0

\* Length of the maximal run of whitespace of s that starts at position i (\s*).
RECURSIVE SpaceRun(_, _)
SpaceRun(s, i) ==
  IF i <= Len(s) /\ IsSpace(s[i]) THEN 1 + SpaceRun(s, i + 1) ELSE 0

\* Value of a run of digits.
RECURSIVE IntOf(_)
IntOf(ds) ==
  IF ds = <<>> THEN 0 ELSE 10 * IntOf(SubSeq(ds, 1, Len(ds) - 1)) + DigitVal(ds[Len(ds)])

\* The fractional digits ds as a multiple of 1/Scale (digits beyond
\* FracDigits are below the resolution of the model and are dropped).
FracOf(ds) ==
  LET kept == IF Len(ds) > FracDigits THEN SubSeq(ds, 1, FracDigits) ELSE ds
  IN  IntOf(kept) * Pow10(FracDigits - Len(kept))

\* float(s) for s of the shape [sign] digits* [. digits*], times Scale.
float(s) ==
  LET signed == s /= <<>> /\ Head(s) \in {"-", "+"}
      body   == IF signed THEN Tail(s) ELSE s
      n      == DigitRun(body, 1)
      frac   == IF n < Len(body) THEN SubSeq(body, n + 2, Len(body)) ELSE <<>>
      mag    == IntOf(SubSeq(body, 1, n)) * Scale + FracOf(frac)
  IN  IF signed /\ Head(s) = "-" THEN 0 - mag ELSE mag

abs(x) == IF x < 0 THEN 0 - x ELSE x

\* ------------------------------------------------ check_trigger, strategy 1
\* End (exclusive) of a match of \d+(?:\.\d+)? at position i of s, 0 if none.
NumberEnd(s, i) ==
  LET d == DigitRun(s, i)
      j == i + d
  IN  IF d = 0 THEN 0
      ELSE IF j <= Len(s) /\ s[j] = "." /\ DigitRun(s, j + 1) > 0
           THEN j + 1 + DigitRun(s, j + 1)
           ELSE j

\* The operators the group ([<>]=?|!=|=) can match at the start of s, in the
\* order the regex engine tries them (greedy "=?" first, then without it).
OperatorCandidates(s) ==
  IF s = <<>> THEN <<>>
  ELSE IF Head(s) \in {"<", ">"}
       THEN IF Len(s) >= 2 /\ s[2] = "=" THEN <<SubSeq(s, 1, 2), SubSeq(s, 1, 1)>>
            ELSE <<SubSeq(s, 1, 1)>>
  ELSE IF Len(s) >= 2 /\ SubSeq(s, 1, 2) = <<"!", "=">> THEN <<SubSeq(s, 1, 2)>>
  ELSE IF Head(s) = "=" THEN <<SubSeq(s, 1, 1)>>
  ELSE <<>>

NoMatch == [matched |-> FALSE, operator |-> <<>>, number |-> <<>>]

\* The rest of the pattern required to reach the end of the trigger.
MatchAfter_to_the_end(s, op) ==
  LET j == Len(op) + 1 + SpaceRun(s, Len(op) + 1)
      e == NumberEnd(s, j)
  IN  IF e = 0 \/ e /= Len(s) + 1 THEN NoMatch
      ELSE [matched |-> TRUE, operator |-> op, number |-> SubSeq(s, j, e - 1)]

\* The rest of the pattern, (?:\s*)(\d+(?:\.\d+)?), after the operator op.
MatchAfter(s, op) ==
  LET j == Len(op) + 1 + SpaceRun(s, Len(op) + 1)
      e == NumberEnd(s, j)
  IN  IF e = 0 THEN NoMatch
      ELSE [matched |-> TRUE, operator |-> op, number |-> SubSeq(s, j, e - 1)]

RECURSIVE FirstMatch(_, _)
FirstMatch(s, cands) ==
  IF cands = <<>> THEN NoMatch
  ELSE IF MatchAfter(s, Head(cands)).matched THEN MatchAfter(s, Head(cands))
  ELSE FirstMatch(s, Tail(cands))

\* re.match(r'^([<>]=?|!=|=)(?:\s*)(\d+(?:\.\d+)?)', trigger)
trigger_match(s) == FirstMatch(s, OperatorCandidates(s))

\* End (exclusive) of a match of \d*\.\d+ at position i of s, 0 if none.
DecimalEnd(s, i) ==
  LET j == i + DigitRun(s, i)
  IN  IF j <= Len(s) /\ s[j] = "." /\ DigitRun(s, j + 1) > 0
      THEN j + 1 + DigitRun(s, j + 1)
      ELSE 0

\* End (exclusive) of a match of [-+]?\d*\.\d+|\d+ at position i, 0 if none.
\* The sign belongs to the first alternative only.
NumberTokenEnd(s, i) ==
  LET signedEnd == IF s[i] \in {"-", "+"} THEN DecimalEnd(s, i + 1) ELSE 0
  IN  IF signedEnd > 0 THEN signedEnd
      ELSE IF DecimalEnd(s, i) > 0 THEN DecimalEnd(s, i)
      ELSE IF DigitRun(s, i) > 0 THEN i + DigitRun(s, i)
      ELSE 0

RECURSIVE FindAllFrom(_, _)
FindAllFrom(s, i) ==
  IF i > Len(s) THEN <<>>
  ELSE IF NumberTokenEnd(s, i) > 0
       THEN <<SubSeq(s, i, NumberTokenEnd(s, i) - 1)>> \o FindAllFrom(s, NumberTokenEnd(s, i))
       ELSE FindAllFrom(s, i + 1)

\* re.findall(r"[-+]?\d*\.\d+|\d+", response)
findall_numbers(s) == FindAllFrom(s, 1)

\* The tolerance 0.01 of the equality operators.
Tolerance == Scale \div 100

\* is_match with the equality tolerance made inclusive (<= 0.01).
is_match_inclusive_tolerance(operator, val, target_val) ==
  IF operator = <<">">> THEN val > target_val
  ELSE IF operator = <<"<">> THEN val < target_val
  ELSE IF operator = <<">", "=">> THEN val >= target_val
  ELSE IF operator = <<"<", "=">> THEN val <= target_val
  ELSE IF operator = <<"=">> \/ operator = <<"=", "=">>
       THEN abs(val - target_val) <= Tolerance
  ELSE IF operator = <<"!", "=">> THEN abs(val - target_val) > Tolerance
  ELSE FALSE

\* is_match with ">" taken as ">=".
is_match_greater_inclusive(operator, val, target_val) ==
  IF operator = <<">">> THEN val >= target_val
  ELSE IF operator = <<"<">> THEN val < target_val
  ELSE IF operator = <<">", "=">> THEN val >= target_val
  ELSE IF operator = <<"<", "=">> THEN val <= target_val
  ELSE IF operator = <<"=">> \/ operator = <<"=", "=">>
       THEN abs(val - target_val) < Tolerance
  ELSE IF operator = <<"!", "=">> THEN abs(val - target_val) > Tolerance
  ELSE FALSE

\* is_match after one pass of the loop body for the number val.
is_match(operator, val, target_val) ==
  IF operator = <<">">> THEN val > target_val
  ELSE IF operator = <<"<">> THEN val < target_val
  ELSE IF operator = <<">", "=">> THEN val >= target_val
  ELSE IF operator = <<"<", "=">> THEN val <= target_val
  ELSE IF operator = <<"=">> \/ operator = <<"=", "=">>
       THEN abs(val - target_val) < Tolerance
  ELSE IF operator = <<"!", "=">> THEN abs(val - target_val) > Tolerance
  ELSE FALSE

\* The loop cut down to the first extracted number (as the docstring words it).
any_number_matches_first_only(operator, target_val, numbers) ==
  numbers /= <<>> /\ is_match(operator, float(Head(numbers)), target_val)

\* The loop over the extracted numbers: True at the first one that matches.
RECURSIVE any_number_matches(_, _, _)
any_number_matches(operator, target_val, numbers) ==
  IF numbers = <<>> THEN FALSE
  ELSE IF is_match(operator, float(Head(numbers)), target_val) THEN TRUE
  ELSE any_number_matches(operator, target_val, Tail(numbers))

\* numeric_result falling through to the substring test when no number matches.
numeric_result_fallthrough(t, r) ==
  LET m == trigger_match(t)
      numbers == findall_numbers(r)
  IN  IF any_number_matches(m.operator, float(m.number), numbers) THEN TRUE
      ELSE str_in(t, r)

\* What check_trigger returns once the numeric pattern matched the trigger.
numeric_result(t, r) ==
  LET m == trigger_match(t)
      numbers == findall_numbers(r)
  IN  IF numbers = <<>> THEN FALSE
      ELSE any_number_matches(m.operator, float(m.number), numbers)

\* ------------------------------------------------ check_trigger, strategy 2
affirmative_responses == {<<"shi">>, <<"y", "e", "s">>, <<"dui">>, <<"you">>}

negative_responses == {<<"fou">>, <<"n", "o">>, <<"cuo">>, <<"mei", "you">>}

\* trigger_intent by containment of a keyword instead of equality with one.
trigger_intent_contains(t) ==
  IF \E k \in affirmative_responses : str_in(lower(k), lower(t)) THEN <<"shi">>
  ELSE IF \E k \in negative_responses : str_in(lower(k), lower(t)) THEN <<"fou">>
  ELSE None

\* "shi" for an affirmative trigger, "fou" for a negative one, None otherwise.
trigger_intent(t) ==
  IF lower(t) \in {lower(k) : k \in affirmative_responses} THEN <<"shi">>
  ELSE IF lower(t) \in {lower(k) : k \in negative_responses} THEN <<"fou">>
  ELSE None

has_affirmative(r) == \E k \in affirmative_responses : str_in(lower(k), lower(r))

has_negative(r) == \E k \in negative_responses : str_in(lower(k), lower(r))

\* intent_result without the test for keywords of the opposite intent.
intent_result_no_exclusion(t, r) ==
  IF trigger_intent(t) = <<"shi">> THEN has_affirmative(r)
  ELSE has_negative(r)

\* What check_trigger returns once the trigger has an intent.
intent_result(t, r) ==
  IF trigger_intent(t) = <<"shi">> THEN has_affirmative(r) /\ ~has_negative(r)
  ELSE has_negative(r) /\ ~has_affirmative(r)

\* ------------------------------------------------ check_trigger, strategy 3
\* The substring test made blind to letter case.
literal_result_ignore_case(t, r) == str_in(lower(t), lower(r))

\* "trigger in response", case-sensitive.
literal_result(t, r) == str_in(t, r)

\* ----------------------------------------------------------- check_trigger
\* The emptiness test reduced to "trigger is None".
trigger_is_empty_none_only(t) == t = None

\* The emptiness test left out.
trigger_is_empty_never(t) == FALSE

\* "not trigger": None and the empty string are falsy.
trigger_is_empty(t) == t = None \/ t = <<>>

\* check_trigger as a function of its two arguments (lines 46-126).
check_trigger(t, r) ==
  IF trigger_is_empty(t) THEN FALSE
  ELSE IF trigger_match(strip(t)).matched THEN numeric_result(strip(t), strip(r))
  ELSE IF trigger_intent(strip(t)) /= None THEN intent_result(strip(t), strip(r))
  ELSE literal_result(strip(t), strip(r))

\* ------------------------------------------------------------------ inputs
Operators ==
  {<<"<">>, <<">">>, <<"<", "=">>, <<">", "=">>, <<"=">>, <<"=", "=">>, <<"!", "=">>}

Targets == {<<"0">>, <<"3", "0">>, <<"5", "0">>, <<"8", "0">>}

\* operator + number, for every operator the trigger grammar names
ComparisonTriggers == {op \o n : op \in Operators, n \in Targets}

\* comparison triggers with blanks, a suffix, a sign or a prefix
VariantTriggers ==
  { <<">", " ", "8", "0">>,
    <<" ", ">", "8", "0", " ">>,
    <<">", "8", "0", "%">>,
    <<"<", "-", "5">>,
    <<"x", ">", "8", "0">>,
    <<"<", "=", "5", "0", ".", "0">> }

KeywordTriggers ==
  affirmative_responses \cup negative_responses
    \cup { <<"Y", "E", "S">>, <<"N", "o">>, <<" ", "y", "e", "s", " ">> }

\* triggers that contain a keyword without being one, and plain literals
LiteralTriggers ==
  { <<"y", "e", "s", " ", "p", "l", "e", "a", "s", "e">>,
    <<"you", "ren">>,
    <<"che", "ku", "men">>,
    <<"C", "h", "e">> }

EmptyTriggers == {None, <<>>, <<" ", " ">>}

TriggerInputs ==
  ComparisonTriggers \cup VariantTriggers \cup KeywordTriggers
    \cup LiteralTriggers \cup EmptyTriggers

\* the words an AI answer is made of
Words ==
  { <<"4", "5">>, <<"2", "0">>, <<"8", "5", "%">>, <<"6", "5", "%">>,
    <<"8", "0">>, <<"5", "0", ".", "0">>, <<"5", "0", ".", "0", "0", "9">>, <<"5", "0", ".", "0", "2">>,
    <<"0", ".", "0", "1">>, <<"-", "5">>, <<"-", "5", ".", "0">>,
    <<"shi">>, <<"you">>, <<"mei", "you">>, <<"fou">>,
    <<"y", "e", "s">>, <<"N", "o">>, <<">", "8", "0">>, <<"=", "=", "5", "0">>,
    <<"che", "ku", "men">>, <<"c", "h", "e">> }

\* " ".join(ws)
RECURSIVE Join(_)
Join(ws) ==
  IF ws = <<>> THEN <<>>
  ELSE IF Len(ws) = 1 THEN ws[1]
  ELSE ws[1] \o <<" ">> \o Join(Tail(ws))

\* every answer of at most MaxTokens words
ResponseInputs ==
  UNION { {Join(ws) : ws \in [1..n -> Words]} : n \in 0..MaxTokens }

\* ------------------------------------------------------------ state machine
TriggerInit ==
  /\ trigger \in TriggerInputs
  /\ response \in ResponseInputs
  /\ pc = "call"
  /\ result = FALSE
  /\ strategy = "none"
  /\ DiffIdle
  /\ MainIdle

\* lines 46-47: an empty trigger returns False at once
ReturnEmpty ==
  /\ pc = "call"
  /\ trigger_is_empty(trigger)
  /\ result' = FALSE
  /\ strategy' = "empty"
  /\ pc' = "done"
  /\ UNCHANGED <<trigger, response, dvars, mvars>>

\* lines 49-93: the numeric pattern matched, the comparison decides
NumericCompare ==
  /\ pc = "call"
  /\ ~trigger_is_empty(trigger)
  /\ trigger_match(strip(trigger)).matched
  /\ result' = numeric_result(strip(trigger), strip(response))
  /\ strategy' = "numeric"
  /\ pc' = "done"
  /\ UNCHANGED <<trigger, response, dvars, mvars>>

\* lines 97-119: the trigger is an intent keyword
IntentMatch ==
  /\ pc = "call"
  /\ ~trigger_is_empty(trigger)
  /\ ~trigger_match(strip(trigger)).matched
  /\ trigger_intent(strip(trigger)) /= None
  /\ result' = intent_result(strip(trigger), strip(response))
  /\ strategy' = "intent"
  /\ pc' = "done"
  /\ UNCHANGED <<trigger, response, dvars, mvars>>

\* lines 121-126: plain substring test
LiteralMatch ==
  /\ pc = "call"
  /\ ~trigger_is_empty(trigger)
  /\ ~trigger_match(strip(trigger)).matched
  /\ trigger_intent(strip(trigger)) = None
  /\ result' = literal_result(strip(trigger), strip(response))
  /\ strategy' = "literal"
  /\ pc' = "done"
  /\ UNCHANGED <<trigger, response, dvars, mvars>>

TriggerNext == ReturnEmpty \/ NumericCompare \/ IntentMatch \/ LiteralMatch

SpecTrigger == TriggerInit /\ [][TriggerNext]_vars

TypeOK ==
  /\ pc \in {"idle", "call", "done"}
  /\ result \in BOOLEAN
  /\ strategy \in {"none", "empty", "numeric", "intent", "literal"}

\* ---------------------------------------------------------- calculate_diff
\* A frame is one row of pixels, each pixel <<b, g, r>> with 8-bit channels;
\* <<>> is an array of zero pixels and NoFrame is None.  Percentages are
\* fixed-point like the other floats (a percentage p is the integer p * Scale).

\* cv2.cvtColor(..., COLOR_BGR2GRAY) on 8-bit data: the luma weights
\* 0.114, 0.587, 0.299 in 14-bit fixed point, rounded.
B2Y == 1868

G2Y == 9617

R2Y == 4899

GrayShift == 16384

gray_of(px) ==
  (px[1] * B2Y + px[2] * G2Y + px[3] * R2Y + GrayShift \div 2) \div GrayShift

cvtColor(frame) == [x \in 1..Len(frame) |-> gray_of(frame[x])]

\* The kernel size (21, 21) of the blur.
KernelSize == 21

\* cv2.getGaussianKernel(21, sigma) for sigma = 0.3*((21-1)*0.5 - 1) + 0.8
\* = 3.5, in units of 1/256 (the 8-bit blur works in fixed point).
GaussianKernel ==
  <<0, 1, 2, 4, 7, 11, 15, 20, 25, 28, 30, 28, 25, 20, 15, 11, 7, 4, 2, 1, 0>>

KernelSum == 256

\* BORDER_REFLECT_101, the default border: position p (0-based, possibly
\* outside) folded into 0..len-1 without repeating the edge pixel.
RECURSIVE reflect101(_, _)
reflect101(p, len) ==
  IF len = 1 THEN 0
  ELSE IF p < 0 THEN reflect101(0 - p, len)
  ELSE IF p >= len THEN reflect101(2 * (len - 1) - p, len)
  ELSE p

RECURSIVE KernelDot(_, _, _)
KernelDot(gray, x, k) ==
  IF k > KernelSize THEN 0
  ELSE GaussianKernel[k]
         * gray[1 + reflect101((x - 1) + (k - 1) - (KernelSize \div 2), Len(gray))]
       + KernelDot(gray, x, k + 1)

\* cv2.GaussianBlur(gray, (21, 21), 0) on a one-row image: the horizontal
\* pass; the vertical pass sees the same row at every tap and keeps it.
GaussianBlur(gray) ==
  [x \in 1..Len(gray) |-> (KernelDot(gray, x, 1) + KernelSum \div 2) \div KernelSum]

\* cv2.subtract in place of cv2.absdiff: a - b saturated at 0.
absdiff_saturating(a, b) ==
  [x \in 1..Len(a) |-> IF a[x] > b[x] THEN a[x] - b[x] ELSE 0]

\* cv2.absdiff
absdiff(a, b) == [x \in 1..Len(a) |-> abs(a[x] - b[x])]

\* The binarisation threshold of line 172.
DiffThreshold == 30

\* The threshold made inclusive (>= 30).
threshold_inclusive(diff) ==
  [x \in 1..Len(diff) |-> IF diff[x] >= DiffThreshold THEN 255 ELSE 0]

\* cv2.threshold(diff, 30, 255, cv2.THRESH_BINARY)
threshold(diff) ==
  [x \in 1..Len(diff) |-> IF diff[x] > DiffThreshold THEN 255 ELSE 0]

\* np.count_nonzero
count_nonzero(img) == Cardinality({x \in 1..Len(img) : img[x] /= 0})

\* The ratio returned without the factor 100.
percentage_of_ratio(non_zero_count, total_pixels) ==
  IF total_pixels = 0 THEN 0
  ELSE (non_zero_count * Scale) \div total_pixels

\* lines 175-183: the zero-size guard and the percentage
percentage_of(non_zero_count, total_pixels) ==
  IF total_pixels = 0 THEN 0
  ELSE (non_zero_count * 100 * Scale) \div total_pixels

\* The None test on the first argument only.
either_is_none_first_only(f1, f2) == f1 = NoFrame

\* line 155: frame1 is None or frame2 is None
either_is_none(f1, f2) == f1 = NoFrame \/ f2 = NoFrame

\* cv2.cvtColor raises cv2.error ("!_src.empty()") on None and on an array
\* without pixels.
cvtColor_raises(frame) == frame = NoFrame \/ frame = <<>>

\* lines 159-160: one of the two conversions to gray raises.
gray_raises(f1, f2) == cvtColor_raises(f1) \/ cvtColor_raises(f2)

\* cv2.absdiff raises cv2.error when the two images differ in size.
absdiff_raises(f1, f2) == Len(f1) /= Len(f2)

\* lines 159-172: the binarised difference image of two frames
thresh_of(f1, f2) ==
  threshold(absdiff(GaussianBlur(cvtColor(f1)), GaussianBlur(cvtColor(f2))))

\* calculate_diff as a function of its arguments: whether it raised, and
\* the percentage it returned if it did not.
calculate_diff(f1, f2) ==
  IF either_is_none(f1, f2) THEN [raised |-> FALSE, value |-> 0]
  ELSE IF gray_raises(f1, f2) THEN [raised |-> TRUE, value |-> 0]
  ELSE IF absdiff_raises(f1, f2) THEN [raised |-> TRUE, value |-> 0]
  ELSE LET t == thresh_of(f1, f2) IN
         [raised |-> FALSE, value |-> percentage_of(count_nonzero(t), Len(t))]

\* ------------------------------------------------------------------ frames
\* Widest frame built pixel by pixel.
MaxWidth == 2

\* Width of the frames that show a step between two colours.
WideWidth == 24

Black == <<0, 0, 0>>

Gray30 == <<30, 30, 30>>

Gray31 == <<31, 31, 31>>

Red == <<0, 0, 255>>

White == <<255, 255, 255>>

Colours == {Black, Gray30, Gray31, Red, White}

\* a frame of width WideWidth: the first k pixels a, the others b
StepFrame(a, b, k) == [x \in 1..WideWidth |-> IF x <= k THEN a ELSE b]

StepFrames ==
  {StepFrame(a, b, k) : a \in {Black, White}, b \in {Black, White},
                        k \in {WideWidth \div 3, WideWidth \div 2}}

SmallFrames == UNION {[1..n -> Colours] : n \in 1..MaxWidth}

\* what the camera can deliver
CameraFrames == SmallFrames \cup StepFrames

FrameInputs == {NoFrame, <<>>} \cup CameraFrames

\* ------------------------------------------- calculate_diff, state machine
DiffInit ==
  /\ TriggerIdle
  /\ MainIdle
  /\ frame1 \in FrameInputs
  /\ frame2 \in FrameInputs
  /\ dpc = "call"
  /\ thresh = <<>>
  /\ percentage = 0

\* lines 155-156: a missing frame gives 0.0
DiffReturnNone ==
  /\ dpc = "call"
  /\ either_is_none(frame1, frame2)
  /\ percentage' = 0
  /\ dpc' = "returned"
  /\ UNCHANGED <<frame1, frame2, thresh, tvars, mvars>>

\* lines 159-160: cvtColor refuses an image without pixels
DiffRaiseEmpty ==
  /\ dpc = "call"
  /\ ~either_is_none(frame1, frame2)
  /\ gray_raises(frame1, frame2)
  /\ dpc' = "raised"
  /\ UNCHANGED <<frame1, frame2, thresh, percentage, tvars, mvars>>

\* line 168: absdiff refuses images of different sizes
DiffRaiseMismatch ==
  /\ dpc = "call"
  /\ ~either_is_none(frame1, frame2)
  /\ ~gray_raises(frame1, frame2)
  /\ absdiff_raises(frame1, frame2)
  /\ dpc' = "raised"
  /\ UNCHANGED <<frame1, frame2, thresh, percentage, tvars, mvars>>

\* lines 159-183: gray, blur, difference, threshold, percentage
DiffReturnPercentage ==
  /\ dpc = "call"
  /\ ~either_is_none(frame1, frame2)
  /\ ~gray_raises(frame1, frame2)
  /\ ~absdiff_raises(frame1, frame2)
  /\ thresh' = thresh_of(frame1, frame2)
  /\ percentage' = percentage_of(count_nonzero(thresh'), Len(thresh'))
  /\ dpc' = "returned"
  /\ UNCHANGED <<frame1, frame2, tvars, mvars>>

DiffNext ==
  DiffReturnNone \/ DiffRaiseEmpty \/ DiffRaiseMismatch \/ DiffReturnPercentage

SpecDiff == DiffInit /\ [][DiffNext]_vars


\* ------------------------------------------------ main, the monitoring loop
\* CJK characters of the messages by their pinyin: "xiang1" U+76F8 (the
\* first character of the word camera the handler looks for), "xiang4"
\* U+50CF (image), "ji" U+6A5F, "duan" U+65B7, "xian" U+7DDA.

\* image_utils.py line 87: the message of open_camera's IOError
OpenFailedMessage == <<"wu", "fa", "kai", "qi", "she", "ying", "ji", " ", "0">>

\* image_utils.py line 110: the camera handle is not opened
DisconnectedMessage == <<"she", "ying", "ji", "lian", "xian", "zhong", "duan">>

\* image_utils.py line 128: two reads in a row gave no frame
ReadFailedMessage ==
  <<"wu", "fa", "cong", "she", "ying", "ji", "du", "qu", "you", "xiao",
    "de", "ying", "xiang4", "zhen">>

\* what capture_frame can raise
CaptureErrors == {DisconnectedMessage, ReadFailedMessage}

\* ai_backends.py lines 105, 272, 364: the adapters open the image outside
\* their try block, open() raises OSError ("[Errno 2] ...")
AdapterErrorMessage == <<"[", "E", "r", "r", "n", "o", " ", "2", "]">>

\* line_notify_module.py lines 45-48, 64: send_notification opens the image
\* inside a try block that catches requests' exceptions only, so an OSError
\* of open() ("[Errno 13] ...") leaves the sender
SenderErrorMessage == <<"[", "E", "r", "r", "n", "o", " ", "1", "3", "]">>

\* camera_daemon.py line 400: the words the handler looks for in str(e)
CameraWord == <<"xiang1", "ji">>

DisconnectWord == <<"duan", "xian">>

\* line 400: "xiang1 ji" in str(e) or "duan xian" in str(e)
wants_reconnect(e) == str_in(CameraWord, e) \/ str_in(DisconnectWord, e)

\* The comparison with >= in place of >.
exceeds_inclusive(score, limit) == score >= limit

\* line 381: diff_score > diff_threshold
exceeds(score, limit) == score > limit

\* The baseline moved only when the threshold was exceeded.
baseline_after_only_on_change(last, current, exceeded) ==
  IF exceeded THEN current ELSE last

\* line 395: last_frame = current_frame.copy(), reached by every iteration
\* that neither raised nor left the loop
baseline_after(last, current, exceeded) == current

\* lines 212-225: the notification channels in the order of the calls
Channels ==
  <<"email", "line_notify", "phone_notify", "alarm_sound", "alarm_clock">>

\* lines 212-225: config.get(channel, {}).get('enabled', False)
is_enabled(en, c) == c \in en

\* lines 212-225: the channels a notification round invokes
invoked_channels(en) == SelectSeq(Channels, LAMBDA c : is_enabled(en, c))

\* lines 212-216: the channels invoked by a round the Line sender leaves
\* with an exception
invoked_until_line(en) ==
  SelectSeq(SubSeq(Channels, 1, 2), LAMBDA c : is_enabled(en, c))

\* lines 424-425: cap.release() if cap.isOpened()
release_if_opened(c) == IF c = "open" THEN "released" ELSE c

\* ------------------------------------------------------ main, its inputs
\* config['system']['diff_threshold'], in percent
Thresholds == {0, 50 * Scale, 100 * Scale}

\* config['prompt']['trigger_keyword'] after the dialog
MonitorTriggers == {<<"y", "e", "s">>, <<">", "8", "0">>, <<>>}

\* what the AI adapter answers
AIAnswers == {<<"y", "e", "s">>, <<"8", "5", "%">>}

\* the channels whose section has enabled: true
EnabledSets ==
  { {}, {"line_notify", "alarm_clock"},
    {"email", "line_notify", "phone_notify", "alarm_sound", "alarm_clock"} }

\* a frame of width MaxWidth: the first pixel a, the others b
Scene(a, b) == [x \in 1..MaxWidth |-> IF x = 1 THEN a ELSE b]

\* the frames of one camera, all of one size: dark, bright, and bright at
\* the left edge only
SceneFrames == {Scene(Black, Black), Scene(White, White), Scene(White, Black)}

\* ------------------------------------------------- main, the state machine
Init ==
  /\ TriggerIdle
  /\ DiffIdle
  /\ mpc = "open_camera" /\ cap = "unset"
  /\ diff_threshold \in Thresholds
  /\ trigger_keyword \in MonitorTriggers
  /\ enabled \in EnabledSets
  /\ last_frame = NoFrame /\ current_frame = NoFrame /\ diff_score = 0
  /\ ai_answer = None /\ error = <<>>
  /\ iteration = 0 /\ ai_called = FALSE /\ hit = FALSE
  /\ notified = <<>> /\ outcome = "none" /\ reconnect = "no"

\* lines 317-319: the camera opens
OpenCameraOk ==
  /\ mpc = "open_camera"
  /\ cap' = "open"
  /\ mpc' = "baseline"
  /\ outcome' = "opened"
  /\ reconnect' = "no"
  /\ UNCHANGED <<tvars, dvars, cfgvars, last_frame, current_frame, diff_score,
                 ai_answer, error, iteration, ai_called, hit, notified>>

\* lines 317-322: open_camera raises, main returns
OpenCameraFails ==
  /\ mpc = "open_camera"
  /\ error' = OpenFailedMessage
  /\ mpc' = "ended"
  /\ outcome' = "open_failed"
  /\ reconnect' = "no"
  /\ UNCHANGED <<tvars, dvars, cfgvars, cap, last_frame, current_frame,
                 diff_score, ai_answer, iteration, ai_called, hit, notified>>

\* lines 327-334: warm-up, then the baseline frame
BaselineOk ==
  /\ mpc = "baseline"
  /\ \E f \in SceneFrames : last_frame' = f
  /\ mpc' = "initial"
  /\ outcome' = "baseline"
  /\ reconnect' = "no"
  /\ UNCHANGED <<tvars, dvars, cfgvars, cap, current_frame, diff_score,
                 ai_answer, error, iteration, ai_called, hit, notified>>

\* lines 331-338: capture_frame raises, the camera is released, main returns
BaselineFails ==
  /\ mpc = "baseline"
  /\ \E e \in CaptureErrors : error' = e
  /\ cap' = "released"
  /\ mpc' = "ended"
  /\ outcome' = "baseline_failed"
  /\ reconnect' = "no"
  /\ UNCHANGED <<tvars, dvars, cfgvars, last_frame, current_frame, diff_score,
                 ai_answer, iteration, ai_called, hit, notified>>

\* lines 344-356, 202-207, 231: the initial frame does not trigger
InitialQuiet ==
  /\ mpc = "initial"
  /\ \E a \in AIAnswers :
       /\ ~check_trigger(trigger_keyword, a)
       /\ ai_answer' = a
  /\ ai_called' = TRUE
  /\ mpc' = "monitor"
  /\ outcome' = "analysed"
  /\ reconnect' = "no"
  /\ UNCHANGED <<tvars, dvars, cfgvars, cap, last_frame, current_frame,
                 diff_score, error, iteration, hit, notified>>

\* lines 344-354, 202-228: the initial frame triggers, every enabled channel
\* is invoked, the camera is released, main returns
InitialTriggered ==
  /\ mpc = "initial"
  /\ \E a \in AIAnswers :
       /\ check_trigger(trigger_keyword, a)
       /\ ai_answer' = a
  /\ ai_called' = TRUE
  /\ hit' = TRUE
  /\ notified' = notified \o invoked_channels(enabled)
  /\ cap' = "released"
  /\ mpc' = "ended"
  /\ outcome' = "triggered"
  /\ reconnect' = "no"
  /\ UNCHANGED <<tvars, dvars, cfgvars, last_frame, current_frame, diff_score,
                 error, iteration>>

\* lines 352, 202: the adapter raises outside every try block of main
InitialAdapterRaises ==
  /\ mpc = "initial"
  /\ ai_called' = TRUE
  /\ error' = AdapterErrorMessage
  /\ mpc' = "ended"
  /\ outcome' = "uncaught"
  /\ reconnect' = "no"
  /\ UNCHANGED <<tvars, dvars, cfgvars, cap, last_frame, current_frame,
                 diff_score, ai_answer, iteration, hit, notified>>

\* lines 352, 207-216: the Line sender raises outside every try block of main
InitialSenderRaises ==
  /\ mpc = "initial"
  /\ is_enabled(enabled, "line_notify")
  /\ \E a \in AIAnswers :
       /\ check_trigger(trigger_keyword, a)
       /\ ai_answer' = a
  /\ ai_called' = TRUE
  /\ hit' = TRUE
  /\ notified' = notified \o invoked_until_line(enabled)
  /\ error' = SenderErrorMessage
  /\ mpc' = "ended"
  /\ outcome' = "uncaught"
  /\ reconnect' = "no"
  /\ UNCHANGED <<tvars, dvars, cfgvars, cap, last_frame, current_frame,
                 diff_score, iteration>>

\* The handler forgetting the baseline.
Handler_losing_baseline(e, c) ==
  /\ error' = e
  /\ cap' = c
  /\ last_frame' = NoFrame
  /\ reconnect' = "no"

\* lines 397-411: the handler of the loop, for the exception e raised while
\* the camera handle was in state c: a message with one of the two words
\* makes it release the camera, open it again and capture a new baseline
Handler(e, c) ==
  /\ error' = e
  /\ IF wants_reconnect(e)
     THEN \/ /\ cap' = "open"
             /\ \E f \in SceneFrames : last_frame' = f
             /\ reconnect' = "ok"
          \/ /\ cap' = "released"
             /\ last_frame' = last_frame
             /\ reconnect' = "open_failed"
          \/ /\ cap' = "open"
             /\ last_frame' = last_frame
             /\ reconnect' = "capture_failed"
     ELSE /\ cap' = c
          /\ last_frame' = last_frame
          /\ reconnect' = "no"

\* the loop is running and may begin one more iteration
Iterating ==
  /\ mpc = "monitor"
  /\ iteration < MaxIterations

\* lines 373, 397-416: capture_frame raises
IterCaptureFails ==
  /\ Iterating
  /\ iteration' = iteration + 1
  /\ \E e \in CaptureErrors :
       /\ cap /= "open" => e = DisconnectedMessage
       /\ Handler(e, IF e = DisconnectedMessage /\ cap = "open" THEN "lost" ELSE cap)
  /\ ai_called' = FALSE
  /\ outcome' = "capture_failed"
  /\ UNCHANGED <<tvars, dvars, cfgvars, mpc, current_frame, diff_score,
                 ai_answer, hit, notified>>

\* lines 373-381, 395: the difference does not exceed the threshold
IterQuiet ==
  /\ Iterating
  /\ cap = "open"
  /\ iteration' = iteration + 1
  /\ \E f \in SceneFrames :
       LET d == calculate_diff(last_frame, f) IN
         /\ ~d.raised
         /\ ~exceeds(d.value, diff_threshold)
         /\ current_frame' = f
         /\ diff_score' = d.value
         /\ last_frame' = baseline_after(last_frame, f, FALSE)
  /\ ai_called' = FALSE
  /\ outcome' = "quiet"
  /\ reconnect' = "no"
  /\ UNCHANGED <<tvars, dvars, cfgvars, mpc, cap, ai_answer, error, hit,
                 notified>>

\* lines 373-395, 202-207, 231: the difference exceeds the threshold, the
\* answer of the AI does not trigger
IterAnalysed ==
  /\ Iterating
  /\ cap = "open"
  /\ iteration' = iteration + 1
  /\ \E f \in SceneFrames :
       LET d == calculate_diff(last_frame, f) IN
         /\ ~d.raised
         /\ exceeds(d.value, diff_threshold)
         /\ current_frame' = f
         /\ diff_score' = d.value
         /\ last_frame' = baseline_after(last_frame, f, TRUE)
  /\ \E a \in AIAnswers :
       /\ ~check_trigger(trigger_keyword, a)
       /\ ai_answer' = a
  /\ ai_called' = TRUE
  /\ outcome' = "analysed"
  /\ reconnect' = "no"
  /\ UNCHANGED <<tvars, dvars, cfgvars, mpc, cap, error, hit, notified>>

\* lines 373-389, 202-228, 420-425: the answer triggers, every enabled
\* channel is invoked, the loop is left and the camera released
IterTriggered ==
  /\ Iterating
  /\ cap = "open"
  /\ iteration' = iteration + 1
  /\ \E f \in SceneFrames :
       LET d == calculate_diff(last_frame, f) IN
         /\ ~d.raised
         /\ exceeds(d.value, diff_threshold)
         /\ current_frame' = f
         /\ diff_score' = d.value
  /\ \E a \in AIAnswers :
       /\ check_trigger(trigger_keyword, a)
       /\ ai_answer' = a
  /\ ai_called' = TRUE
  /\ hit' = TRUE
  /\ notified' = notified \o invoked_channels(enabled)
  /\ cap' = release_if_opened(cap)
  /\ mpc' = "ended"
  /\ outcome' = "triggered"
  /\ reconnect' = "no"
  /\ UNCHANGED <<tvars, dvars, cfgvars, last_frame, error>>

\* lines 373-388, 202, 397-416: the adapter raises, the handler of the loop
\* catches it
IterAdapterRaises ==
  /\ Iterating
  /\ cap = "open"
  /\ iteration' = iteration + 1
  /\ \E f \in SceneFrames :
       LET d == calculate_diff(last_frame, f) IN
         /\ ~d.raised
         /\ exceeds(d.value, diff_threshold)
         /\ current_frame' = f
         /\ diff_score' = d.value
  /\ Handler(AdapterErrorMessage, cap)
  /\ ai_called' = TRUE
  /\ outcome' = "raised"
  /\ UNCHANGED <<tvars, dvars, cfgvars, mpc, ai_answer, hit, notified>>

\* lines 373-388, 202-216, 397-416: the answer triggers, the Line sender
\* raises, the handler of the loop catches it
IterSenderRaises ==
  /\ Iterating
  /\ cap = "open"
  /\ is_enabled(enabled, "line_notify")
  /\ iteration' = iteration + 1
  /\ \E f \in SceneFrames :
       LET d == calculate_diff(last_frame, f) IN
         /\ ~d.raised
         /\ exceeds(d.value, diff_threshold)
         /\ current_frame' = f
         /\ diff_score' = d.value
  /\ \E a \in AIAnswers :
       /\ check_trigger(trigger_keyword, a)
       /\ ai_answer' = a
  /\ ai_called' = TRUE
  /\ hit' = TRUE
  /\ notified' = notified \o invoked_until_line(enabled)
  /\ Handler(SenderErrorMessage, cap)
  /\ outcome' = "raised"
  /\ UNCHANGED <<tvars, dvars, cfgvars, mpc>>

\* lines 418-425: Ctrl+C in the loop, the camera is released if it is opened
Interrupt ==
  /\ mpc = "monitor"
  /\ cap' = release_if_opened(cap)
  /\ mpc' = "ended"
  /\ ai_called' = FALSE
  /\ outcome' = "interrupted"
  /\ reconnect' = "no"
  /\ UNCHANGED <<tvars, dvars, cfgvars, last_frame, current_frame, diff_score,
                 ai_answer, error, iteration, hit, notified>>

\* lines 324-365: Ctrl+C during the warm-up, the baseline capture or the
\* initial analysis, outside the try block of line 367: main dies
InterruptBeforeLoop ==
  /\ mpc \in {"baseline", "initial"}
  /\ mpc' = "ended"
  /\ ai_called' = FALSE
  /\ outcome' = "uncaught"
  /\ reconnect' = "no"
  /\ UNCHANGED <<tvars, dvars, cfgvars, cap, last_frame, current_frame,
                 diff_score, ai_answer, error, iteration, hit, notified>>

Next ==
  \/ OpenCameraOk \/ OpenCameraFails
  \/ BaselineOk \/ BaselineFails
  \/ InitialQuiet \/ InitialTriggered
  \/ InitialAdapterRaises \/ InitialSenderRaises
  \/ IterCaptureFails \/ IterQuiet \/ IterAnalysed \/ IterTriggered
  \/ IterAdapterRaises \/ IterSenderRaises
  \/ Interrupt \/ InterruptBeforeLoop

Spec == Init /\ [][Next]_vars

MainTypeOK ==
  /\ mpc \in {"idle", "open_camera", "baseline", "initial", "monitor", "ended"}
  /\ cap \in {"unset", "open", "lost", "released"}
  /\ iteration \in 0..MaxIterations
  /\ ai_called \in BOOLEAN
  /\ hit \in BOOLEAN


\* ------------------------------------------------------------------ claims
\* The call has returned.
Done == pc = "done"

\* The two arguments as the strategies see them (after lines 49-50).
Trig == strip(trigger)

Resp == strip(response)

\* Operator and target of a comparison trigger, numbers found in the answer.
Op == trigger_match(Trig).operator

Target == float(trigger_match(Trig).number)

Extracted == findall_numbers(Resp)

IsComparison == ~trigger_is_empty(trigger) /\ trigger_match(Trig).matched

HasDigit(s) == \E i \in 1..Len(s) : IsDigit(s[i])

HasWord(ks, r) == \E k \in ks : str_in(k, lower(r))

\* C1: when the stripped trigger matches operator+number, the numeric
\* comparison alone decides: the numeric strategy is the one used, and the
\* result is False whenever the answer holds no number or no extracted number
\* satisfies the comparison, also when the answer contains the trigger text
\* or intent keywords.
C1_StrategyExclusivity ==
  (Done /\ IsComparison) =>
    /\ strategy = "numeric"
    /\ (~HasDigit(Resp) => result = FALSE)
    /\ ((\A i \in DOMAIN Extracted : ~is_match(Op, float(Extracted[i]), Target))
          => result = FALSE)

\* C1 witness: a comparison trigger occurs verbatim in the answer, next to an
\* affirmative keyword, and the call still returned False.
C1_Witness ==
  /\ Done /\ IsComparison
  /\ str_in(Trig, Resp)
  /\ HasWord(affirmative_responses, Resp)
  /\ result = FALSE

C3_IntentMatching ==
  LET yes == HasWord(affirmative_responses, Resp)
      no  == HasWord(negative_responses, Resp)
  IN  /\ (Done /\ lower(Trig) \in affirmative_responses) => (result = (yes /\ ~no))
      /\ (Done /\ lower(Trig) \in negative_responses) => (result = (no /\ ~yes))
      /\ (Done /\ strategy = "intent" /\ yes /\ no) => (result = FALSE)

\* C3 witness: an affirmative trigger, an answer with an affirmative and a
\* negative keyword, result False.
C3_Witness ==
  /\ Done /\ strategy = "intent"
  /\ lower(Trig) \in affirmative_responses
  /\ str_in(<<"y", "e", "s">>, lower(Resp))
  /\ str_in(<<"n", "o">>, lower(Resp))
  /\ result = FALSE

\* C4: for an empty trigger (None or the empty string) the result is False
\* for every answer and no strategy runs.
C4_EmptyTrigger ==
  (Done /\ (trigger = None \/ trigger = <<>>)) =>
    (result = FALSE /\ strategy = "empty")

\* C4 witness: the empty string as trigger against a non-empty answer.
C4_Witness == Done /\ trigger = <<>> /\ response /= <<>> /\ strategy = "empty"

\* C5: a trigger "==N" is a numeric comparison and gives the result of the
\* trigger "=N" for every answer.
C5_DoubleEqualsIsEquals ==
  (Done /\ Len(Trig) > 2 /\ SubSeq(Trig, 1, 2) = <<"=", "=">> /\ IsDigit(Trig[3])) =>
    (result = check_trigger(Tail(Trig), response))

\* The numeral a number word stands for: the word without a final "%".
Numeral(word) ==
  IF word /= <<>> /\ word[Len(word)] = "%" THEN SubSeq(word, 1, Len(word) - 1) ELSE word

\* A word that is one number: an optional sign, digits, an optional
\* fraction, an optional "%".
IsNumberWord(word) ==
  LET n == Numeral(word)
      b == IF n /= <<>> /\ Head(n) \in {"-", "+"} THEN Tail(n) ELSE n
  IN  b /= <<>> /\ NumberEnd(b, 1) = Len(b) + 1

\* C6: extraction keeps the sign of integers and decimals alike and yields
\* the value of every digit run: an answer that is one number word ("-5",
\* "-5.0", "85%") is extracted as exactly that number.
C6_SignedExtraction ==
  (Done /\ strategy = "numeric" /\ IsNumberWord(Resp)) =>
    /\ Len(Extracted) = 1
    /\ float(Extracted[1]) = float(Numeral(Resp))

C8_NotEqualNegatesEqual ==
  (Done /\ strategy = "numeric" /\ Op = <<"!", "=">> /\ Len(Extracted) = 1) =>
    /\ result = (100 * abs(float(Extracted[1]) - Target) >= Scale)
    /\ result = ~check_trigger(Tail(Trig), response)

\* C9: ">" is value > target, "<" is value < target, ">=" is value >= target,
\* "<=" is value <= target; a number equal to the target satisfies ">=" and
\* "<=" and neither ">" nor "<".
C9_OrderingOperators ==
  (Done /\ strategy = "numeric" /\ Len(Extracted) = 1) =>
    LET v == float(Extracted[1])
    IN  /\ (Op = <<">">> => (result = (v > Target)))
        /\ (Op = <<"<">> => (result = (v < Target)))
        /\ (Op = <<">", "=">> => (result = (v >= Target)))
        /\ (Op = <<"<", "=">> => (result = (v <= Target)))

\* C9 witness: ">" against an answer whose number equals the target
\* returned False.
C9_Witness ==
  /\ Done /\ strategy = "numeric" /\ Op = <<">">>
  /\ Len(Extracted) = 1 /\ float(Extracted[1]) = Target
  /\ result = FALSE

\* C10: the intent strategy is used iff the stripped, lower-cased trigger
\* equals one of the eight keywords; a non-numeric trigger that only
\* contains a keyword is decided by literal containment.
C10_IntentSelection ==
  (Done /\ ~trigger_is_empty(trigger)) =>
    /\ (strategy = "intent") <=>
         (lower(Trig) \in affirmative_responses \cup negative_responses)
    /\ (/\ ~IsComparison
        /\ lower(Trig) \notin affirmative_responses \cup negative_responses)
         => (strategy = "literal" /\ result = str_in(Trig, Resp))

\* C10 witness: a trigger that contains "yes" without being it, an answer
\* that contains "yes" and not the trigger, result False by containment.
C10_Witness ==
  /\ Done /\ strategy = "literal"
  /\ Trig /= <<"y", "e", "s">> /\ str_in(<<"y", "e", "s">>, Trig)
  /\ str_in(<<"y", "e", "s">>, Resp)
  /\ result = FALSE

\* The text t stands at position i of r, character by character.
OccursAt(t, r, i) ==
  /\ i + Len(t) - 1 <= Len(r)
  /\ \A j \in 1..Len(t) : r[i + j - 1] = t[j]

\* C11: when the trigger is neither a comparison nor an intent keyword, the
\* result is True iff the trigger occurs verbatim, case-sensitively, in the
\* answer; a trigger that differs from the answer's text only in letter case
\* yields False.
C11_LiteralFallback ==
  (Done /\ strategy = "literal") =>
    /\ result = (\E i \in 1..(Len(Resp) + 1) : OccursAt(Trig, Resp, i))
    /\ (Trig /= Resp /\ lower(Trig) = lower(Resp)) => (result = FALSE)

\* C11 witness: the trigger equals the answer up to letter case only, and the
\* call returned False.
C11_Witness ==
  /\ Done /\ strategy = "literal"
  /\ Trig /= Resp /\ lower(Trig) = lower(Resp)
  /\ result = FALSE

\* ---------------------------------------------------- claims, calculate_diff
\* calculate_diff has returned a value.
DiffReturned == dpc = "returned"

\* calculate_diff has returned or raised.
DiffEnded == dpc \in {"returned", "raised"}

\* Both arguments are frames with pixels, of one size.
BothFramesOfOneSize ==
  /\ frame1 \in CameraFrames /\ frame2 \in CameraFrames
  /\ Len(frame1) = Len(frame2)

\* The blurred grayscale images of the two arguments.
Blurred1 == GaussianBlur(cvtColor(frame1))

Blurred2 == GaussianBlur(cvtColor(frame2))

\* The pixels marked changed in the binarised image.
ChangedPixels == {x \in 1..Len(thresh) : thresh[x] = 255}

\* C15: the value returned is (changed pixels / all pixels) * 100: for two
\* non-empty frames of equal dimensions it lies in [0, 100], is 0 iff no pixel
\* is marked changed and 100 iff every pixel is.
C15_PercentageOfChanged ==
  (DiffEnded /\ BothFramesOfOneSize) =>
    LET n     == Cardinality(ChangedPixels)
        total == Len(frame1)
    IN  /\ DiffReturned
        /\ Len(thresh) = total
        /\ total * percentage <= n * 100 * Scale
        /\ n * 100 * Scale < total * (percentage + 1)
        /\ 0 <= percentage /\ percentage <= 100 * Scale
        /\ (percentage = 0) <=> (n = 0)
        /\ (percentage = 100 * Scale) <=> (n = total)

\* C15 witness: some pixels are marked changed and some are not, and the
\* percentage lies strictly between 0 and 100.
C15_Witness ==
  /\ DiffReturned /\ BothFramesOfOneSize
  /\ ChangedPixels /= {} /\ ChangedPixels /= 1..Len(thresh)
  /\ 0 < percentage /\ percentage < 100 * Scale

\* C16: a pixel is counted as changed iff the absolute difference of its two
\* blurred grayscale values is strictly greater than 30; a difference of
\* exactly 30 counts as unchanged.
C16_StrictCutoff ==
  (DiffEnded /\ BothFramesOfOneSize) =>
    \A x \in 1..Len(frame1) :
      (x \in ChangedPixels) <=> (abs(Blurred1[x] - Blurred2[x]) > 30)

\* C16 witness: every pixel differs by exactly 30 and none is counted.
C16_Witness ==
  /\ DiffReturned /\ BothFramesOfOneSize
  /\ \A x \in 1..Len(frame1) : abs(Blurred1[x] - Blurred2[x]) = 30
  /\ ChangedPixels = {}
  /\ percentage = 0

\* C17: when either argument is None (the first, the second or both) the
\* call returns 0 and no image is processed.
C17_NoneGivesZero ==
  (DiffEnded /\ (frame1 = NoFrame \/ frame2 = NoFrame)) =>
    (DiffReturned /\ percentage = 0 /\ thresh = <<>>)

\* C17 witness: the first argument is a frame, the second is None, 0 returned.
C17_Witness ==
  /\ DiffReturned
  /\ frame1 \in CameraFrames /\ frame2 = NoFrame
  /\ percentage = 0

\* C18: calculate_diff(F, F) is exactly 0 for every frame F.
C18_SelfDiffIsZero ==
  (DiffEnded /\ frame1 = frame2) => (DiffReturned /\ percentage = 0)

\* C18, for the frames that have pixels (and for None): there the self
\* difference is 0.
C18_SelfDiffIsZeroWithPixels ==
  (DiffEnded /\ frame1 = frame2 /\ frame1 /= <<>>) => (DiffReturned /\ percentage = 0)

\* C19: calculate_diff is symmetric: with the arguments exchanged the call
\* ends the same way (returns the same percentage, or raises as well), for
\* frames of equal dimensions and for None arguments.
C19_Symmetric ==
  DiffEnded =>
    /\ calculate_diff(frame2, frame1).raised = (dpc = "raised")
    /\ DiffReturned => (calculate_diff(frame2, frame1).value = percentage)

\* C19 witness: two different frames of one size whose difference is not 0.
C19_Witness ==
  /\ DiffReturned /\ BothFramesOfOneSize
  /\ frame1 /= frame2
  /\ percentage > 0
  /\ calculate_diff(frame2, frame1).value = percentage

\* C20: for a frame of zero pixels calculate_diff returns 0 and does not
\* raise: the guard on total_pixels is reached.
C20_ZeroSizedGivesZero ==
  (DiffEnded /\ (frame1 = <<>> \/ frame2 = <<>>)) => (DiffReturned /\ percentage = 0)

\* ---------------------------------------- further claims on check_trigger
\* C25: for every keyword k of the affirmative and of the negative list,
\* check_trigger(k, k) is True: an answer that is exactly the configured
\* intent keyword fires the trigger.
C25_KeywordReflexive ==
  (Done /\ trigger \in affirmative_responses \cup negative_responses
        /\ response = trigger) =>
    result = TRUE

\* C26: a trigger that is empty after stripping gives False for every
\* answer.
C26_BlankTriggerIsEmpty ==
  (Done /\ trigger /= None /\ Trig = <<>>) => result = FALSE

\* The operators the trigger grammar knows.
PatternOperators ==
  {<<"<">>, <<">">>, <<"<", "=">>, <<">", "=">>, <<"!", "=">>, <<"=">>}

\* n is digits, or digits "." digits
IsNumeral(n) ==
  /\ n /= <<>>
  /\ \A i \in 1..Len(n) : IsDigit(n[i]) \/ n[i] = "."
  /\ Cardinality({i \in 1..Len(n) : n[i] = "."}) <= 1
  /\ IsDigit(n[1]) /\ IsDigit(n[Len(n)])

\* t is op, k blanks, a digit, and whatever follows
StartsWith(t, op, k) ==
  /\ Len(t) > Len(op) + k
  /\ SubSeq(t, 1, Len(op)) = op
  /\ \A i \in 1..k : IsSpace(t[Len(op) + i])
  /\ IsDigit(t[Len(op) + k + 1])

\* the longest numeral s begins with
LeadingNumber(s) ==
  LET ends == {j \in 1..Len(s) : IsNumeral(SubSeq(s, 1, j))}
  IN  SubSeq(s, 1, CHOOSE j \in ends : \A i \in ends : i <= j)

\* C30: a stripped trigger that begins with an operator, blanks and a number
\* is evaluated by the numeric strategy as the comparison of that operator
\* with that leading number, whatever text follows; every other non-empty
\* trigger (a sign before the number, text before the operator) goes to the
\* intent or the literal strategy.
C30_AnchoredAtStartOnly ==
  (Done /\ ~trigger_is_empty(trigger)) =>
    /\ \A op \in PatternOperators : \A k \in 0..Len(Trig) :
         StartsWith(Trig, op, k) =>
           /\ strategy = "numeric"
           /\ result =
                check_trigger(
                  op \o LeadingNumber(SubSeq(Trig, Len(op) + k + 1, Len(Trig))),
                  response)
    /\ (~\E op \in PatternOperators : \E k \in 0..Len(Trig) :
           StartsWith(Trig, op, k)) =>
         strategy \in {"intent", "literal"}

\* The trigger ">80%" was compared as "> 80" and fired on the answer "85%".
C30_Witness ==
  /\ Done
  /\ trigger = <<">", "8", "0", "%">>
  /\ response = <<"8", "5", "%">>
  /\ strategy = "numeric"
  /\ result = TRUE

\* ------------------------------------------------- claims on the main loop
\* This step ran an iteration of the loop up to a difference score.
ScoredIteration ==
  /\ iteration' = iteration + 1
  /\ outcome' /= "capture_failed"

\* The score of this step's iteration exceeds the configured threshold.
ScoreExceeds == diff_score' > diff_threshold

\* C12: an iteration of the monitoring loop calls the AI adapter if and only
\* if the difference score of its frame against the baseline is strictly
\* greater than diff_threshold; an iteration whose score is less than or
\* equal to the threshold gets no answer, evaluates no trigger and invokes
\* no notification channel.
C12_AICalledIffExceeds ==
  [][ScoredIteration =>
        /\ (ai_called' <=> ScoreExceeds)
        /\ (~ScoreExceeds =>
              /\ ai_answer' = ai_answer
              /\ hit' = hit
              /\ notified' = notified)]_vars

\* An iteration whose score equals a positive threshold made no AI call.
C12_Witness ==
  /\ iteration >= 1
  /\ outcome = "quiet"
  /\ diff_threshold > 0
  /\ diff_score = diff_threshold
  /\ ~ai_called
  /\ mpc = "monitor"

\* C13: once check_trigger has returned True the monitoring is over: main
\* has ended, and no later step begins an iteration (captures a frame) or
\* calls the AI adapter.
C13_TriggerStopsMonitoring ==
  [][/\ (hit' => mpc' = "ended")
     /\ (hit => (iteration' = iteration /\ ~ai_called'))]_vars

\* C14: every iteration that ends without an exception and without a trigger
\* computed its difference against the baseline it found and leaves
\* last_frame equal to its own frame, whether or not the threshold was
\* exceeded and the AI called.
C14_BaselineFollowsCurrent ==
  [][(iteration' = iteration + 1 /\ outcome' \in {"quiet", "analysed"}) =>
        /\ diff_score' = calculate_diff(last_frame, current_frame').value
        /\ last_frame' = current_frame']_vars

\* A second iteration saw a change that did not exceed the threshold, made
\* no AI call and moved the baseline to its frame.
C14_Witness ==
  /\ iteration >= 2
  /\ outcome = "quiet"
  /\ diff_score > 0
  /\ ~ai_called
  /\ last_frame = current_frame
  /\ mpc = "monitor"

\* C21: when an iteration of the loop fails with one of the IOErrors of
\* capture_frame (camera disconnected, no frame read), the handler tries to
\* reconnect: it releases the capture, opens the camera again and captures
\* a new baseline.
C21_CaptureFailureReconnects ==
  (iteration >= 1 /\ outcome = "capture_failed") => reconnect /= "no"

\* C22: whenever main has ended after open_camera succeeded, the capture is
\* not left opened: cap.release() was called on it.
C22_CameraReleasedAtEnd ==
  mpc = "ended" => cap /= "open"

\* The channels this step invoked.
NewlyInvoked == SubSeq(notified', Len(notified) + 1, Len(notified'))

\* This step called perform_ai_analysis and the adapter gave an answer.
AnalysisAnswered ==
  /\ ai_called'
  /\ \/ outcome' \in {"analysed", "triggered"}
     \/ outcome' \in {"raised", "uncaught"} /\ error' = SenderErrorMessage

\* The enabled channels in the order email, Line, phone, alarm sound, alarm
\* clock.
EnabledInOrder ==
  SelectSeq(<<"email", "line_notify", "phone_notify", "alarm_sound",
              "alarm_clock">>, LAMBDA c : c \in enabled)

\* C23: the baseline frame is analysed before the loop without any diff
\* score; if its answer matches the trigger every enabled notification
\* fires and main ends with no iteration run, otherwise the loop starts
\* with the baseline as last_frame and nothing notified.
C23_InitialAnalysis ==
  [][(mpc = "initial" /\ AnalysisAnswered) =>
        /\ iteration' = 0 /\ diff_score' = diff_score
        /\ last_frame' = last_frame
        /\ IF check_trigger(trigger_keyword, ai_answer')
           THEN NewlyInvoked = EnabledInOrder /\ mpc' = "ended"
           ELSE NewlyInvoked = <<>> /\ mpc' = "monitor"]_vars

\* C24: a call of perform_ai_analysis invokes, when the answer matches the
\* trigger, exactly the enabled channels, each once, in the order email,
\* Line, phone, alarm sound, alarm clock, and no channel when the answer
\* does not match.
C24_GatingAndOrder ==
  [][AnalysisAnswered =>
        NewlyInvoked =
          IF check_trigger(trigger_keyword, ai_answer')
          THEN EnabledInOrder ELSE <<>>]_vars

\* C27: over a whole run each channel is invoked at most once.
C27_OneNotificationRound ==
  \A c \in {"email", "line_notify", "phone_notify", "alarm_sound", "alarm_clock"} :
    Cardinality({i \in 1..Len(notified) : notified[i] = c}) <= 1

\* C28: an iteration of the loop in which a step raised an exception leaves
\* the loop running and last_frame as it was, unless the handler reconnected
\* the camera and captured a new baseline; the loop ends only by a trigger
\* hit or by KeyboardInterrupt.
C28_ExceptionKeepsBaseline ==
  [][/\ (iteration' = iteration + 1 /\ outcome' \in {"capture_failed", "raised"}) =>
          /\ mpc' = "monitor"
          /\ error' /= <<>>
          /\ (last_frame' = last_frame \/ reconnect' = "ok")
     /\ (mpc = "monitor" /\ mpc' = "ended") =>
          outcome' \in {"triggered", "interrupted"}]_vars

\* The adapter raised on a frame that differs from the baseline: the loop
\* goes on with the old baseline.
C28_Witness ==
  /\ mpc = "monitor"
  /\ iteration >= 1
  /\ outcome = "raised"
  /\ error = AdapterErrorMessage
  /\ current_frame /= last_frame
  /\ current_frame /= NoFrame
  /\ ~hit

\* C29: with an empty trigger_keyword check_trigger never returns True and
\* no channel is ever invoked, whatever the AI answers; the loop ends only
\* by KeyboardInterrupt.
C29_EmptyKeywordNeverStops ==
  [][trigger_keyword = <<>> =>
        /\ ~hit'
        /\ notified' = <<>>
        /\ (mpc = "monitor" /\ mpc' = "ended") => outcome' = "interrupted"]_vars

\* With an empty trigger_keyword the second iteration got the answer "yes"
\* and the loop goes on without a notification.
C29_Witness ==
  /\ trigger_keyword = <<>>
  /\ mpc = "monitor"
  /\ iteration >= 2
  /\ outcome = "analysed"
  /\ ai_answer = <<"y", "e", "s">>
  /\ notified = <<>>
  /\ ~hit


====
